---- MODULE Spec2Model ----
(***************************************************************************)
(* A model of gdb-mcp: the session registry (modules/sessionManager.py,    *)
(* GDBSessionManager) and the command facade built on it                   *)
(* (modules/gdbTools.py, GDBTools).                                        *)
(*                                                                         *)
(* Neither class holds a lock, so the model runs the calls of several      *)
(* callers interleaved at the granularity of the statements that read or   *)
(* write the shared dictionary self.sessions or talk to a subprocess.      *)
(* Text is modelled as a sequence of string pieces: the literal parts of   *)
(* an f-string and the values interpolated into it.                        *)
(***************************************************************************)
EXTENDS Integers, Sequences, FiniteSets, TLC

(***************************************************************************)
(* Bounds of the model.                                                    *)
(***************************************************************************)
\* How many identifiers uuid.uuid4() hands out in one run.
MaxUuids == 2

\* The longest reply sequence format_gdb_response is applied to on its own.
MaxReplyLen == 2

\* The identifiers uuid.uuid4() can hand out, as text.
UuidNames == <<"uuid-1", "uuid-2", "uuid-3", "uuid-4">>

Uuids == {UuidNames[i] : i \in 1..MaxUuids}

\* An identifier no create_session ever returned (tests/test-sessionManager.py).
BogusIds == {"nonexistent-session"}

\* The callers whose calls interleave.
Callers == {"A", "B"}

\* Debugger executables a caller may name; only "gdb" can be spawned.
GdbPaths == {"gdb", "/nonexistent/gdb"}

Executables == {"gdb"}

\* Program and core files a caller may name; only the first exists on disk.
FilePaths == {"/bin/prog", "/nonexistent"}

ExistingFiles == {"/bin/prog"}

NoHandle == 0

(***************************************************************************)
(* Text.  A text is a sequence of pieces; Concat joins two texts.          *)
(***************************************************************************)
Concat(a, b) == a \o b

\* The literal pieces of the program's messages that contain "not found".
NotFoundPieces ==
    { "' not found. Use gdb_list_sessions to see active sessions.",
      "' not found" }

ContainsNotFound(text) == \E i \in DOMAIN text : text[i] \in NotFoundPieces

\* The literal piece of the program's messages that contains "does not exist".
DoesNotExistPieces == { "' does not exist" }

ContainsDoesNotExist(text) == \E i \in DOMAIN text : text[i] \in DoesNotExistPieces

(***************************************************************************)
(* Exceptions: a type, the text str(e) gives, and the layer that raised    *)
(* it (the registry, or the subprocess layer under it).                    *)
(***************************************************************************)
Exc(type, msg, layer) == [type |-> type, msg |-> msg, layer |-> layer]

\* Mutant of SessionNotFound: a message without the words "not found".
SessionNotFoundTerse(session_id) ==
    Exc("ValueError", <<"Unknown GDB session '", session_id, "'">>, "registry")

\* get_session's ValueError for an identifier absent from the registry.
SessionNotFound(session_id) ==
    Exc("ValueError",
        <<"GDB session '", session_id,
          "' not found. Use gdb_list_sessions to see active sessions.">>,
        "registry")

\* dict[key] and del dict[key] on a missing key: str(KeyError(k)) is repr(k).
KeyError(key) == Exc("KeyError", <<"'", key, "'">>, "registry")

\* GdbController(command=[gdb_path]) when the executable cannot be started.
SpawnError(gdb_path) ==
    Exc("FileNotFoundError",
        <<"[Errno 2] No such file or directory: '", gdb_path, "'">>, "process")

\* What the subprocess layer raises from write(): a dead pipe, no reply in time,
\* a reply it cannot parse.
BrokenPipe == Exc("BrokenPipeError", <<"[Errno 32] Broken pipe">>, "process")

GdbTimeout ==
    Exc("GdbTimeoutError", <<"Did not get response from gdb after 1 seconds">>, "process")

MalformedReply == Exc("ValueError", <<"Unable to parse gdb mi output">>, "process")

\* What gdb.write() can raise while it waits for the reply.
ProcessFailures == {BrokenPipe, GdbTimeout, MalformedReply}

ProcessFailureTypes == {exc.type : exc \in ProcessFailures}

(***************************************************************************)
(* The registry's dictionary self.sessions: a Python dict keeps insertion  *)
(* order, so it is a sequence of <<key, handle>> entries with unique keys. *)
(***************************************************************************)
Keys(d) == [i \in DOMAIN d |-> d[i][1]]

KeySet(d) == {d[i][1] : i \in DOMAIN d}

HasKey(d, k) == k \in KeySet(d)

Lookup(d, k) == d[CHOOSE i \in DOMAIN d : d[i][1] = k][2]

Insert(d, k, v) ==
    IF HasKey(d, k)
    THEN [i \in DOMAIN d |-> IF d[i][1] = k THEN <<k, v>> ELSE d[i]]
    ELSE Append(d, <<k, v>>)

Delete(d, k) == SelectSeq(d, LAMBDA e : e[1] # k)

(***************************************************************************)
(* The facade's capabilities that take a session identifier                *)
(* (GDBTools.load_program .. GDBTools.list_source_files), and the text     *)
(* each one's except clause puts before str(e).                            *)
(***************************************************************************)
Capabilities ==
    { "load_program",
      "execute_command",
      "attach_to_process",
      "load_core_dump",
      "set_breakpoint",
      "continue_execution",
      "step_execution",
      "next_execution",
      "finish_function",
      "get_backtrace",
      "print_expression",
      "examine_memory",
      "get_registers",
      "disassemble_function",
      "disassemble_address_range",
      "disassemble_around_pc",
      "get_local_variables",
      "get_function_arguments",
      "get_stack_frames",
      "evaluate_expression",
      "get_register_names",
      "get_register_values",
      "get_changed_registers",
      "read_memory_bytes",
      "get_thread_info",
      "switch_thread",
      "get_breakpoint_list",
      "delete_breakpoint",
      "enable_breakpoint",
      "disable_breakpoint",
      "set_watchpoint",
      "get_symbol_info",
      "list_source_files" }

ErrorPrefixTable ==
    [ load_program |-> "Error loading program: ",
      execute_command |-> "Error executing command: ",
      attach_to_process |-> "Error attaching to process: ",
      load_core_dump |-> "Error loading core dump: ",
      set_breakpoint |-> "Error setting breakpoint: ",
      continue_execution |-> "Error continuing execution: ",
      step_execution |-> "Error stepping execution: ",
      next_execution |-> "Error stepping to next line: ",
      finish_function |-> "Error finishing function: ",
      get_backtrace |-> "Error getting backtrace: ",
      print_expression |-> "Error printing expression: ",
      examine_memory |-> "Error examining memory: ",
      get_registers |-> "Error getting register info: ",
      disassemble_function |-> "Error disassembling function: ",
      disassemble_address_range |-> "Error disassembling address range: ",
      disassemble_around_pc |-> "Error disassembling around PC: ",
      get_local_variables |-> "Error getting local variables: ",
      get_function_arguments |-> "Error getting function arguments: ",
      get_stack_frames |-> "Error getting stack frames: ",
      evaluate_expression |-> "Error evaluating expression: ",
      get_register_names |-> "Error getting register names: ",
      get_register_values |-> "Error getting register values: ",
      get_changed_registers |-> "Error getting changed registers: ",
      read_memory_bytes |-> "Error reading memory bytes: ",
      get_thread_info |-> "Error getting thread info: ",
      switch_thread |-> "Error switching thread: ",
      get_breakpoint_list |-> "Error getting breakpoint list: ",
      delete_breakpoint |-> "Error deleting breakpoint: ",
      enable_breakpoint |-> "Error enabling breakpoint: ",
      disable_breakpoint |-> "Error disabling breakpoint: ",
      set_watchpoint |-> "Error setting watchpoint: ",
      get_symbol_info |-> "Error getting symbol info: ",
      list_source_files |-> "Error listing source files: " ]

ErrorPrefix(cap) == ErrorPrefixTable[cap]

ErrorPrefixes == {ErrorPrefixTable[cap] : cap \in Capabilities}

\* The two capabilities that test Path(...).exists() before they send.
FileCapabilities == {"load_program", "load_core_dump"}

(***************************************************************************)
(* Arguments.  An optional Python value is Some(v) or None.                *)
(***************************************************************************)
Some(v) == [some |-> TRUE, v |-> v]

None == [some |-> FALSE, v |-> 0]

\* None where a list is expected.
NoList == [some |-> FALSE, v |-> <<>>]

NoArgs == [none |-> TRUE]

\* The arguments a caller passes to a capability, besides the session identifier.
Args(cap) ==
    CASE cap \in FileCapabilities -> [path : FilePaths]
      [] cap = "execute_command" -> [command : {"help"}]
      [] cap = "attach_to_process" -> [pid : {1234}]
      [] cap = "set_breakpoint" -> [location : {"main"}]
      [] cap \in {"print_expression", "evaluate_expression"} -> [expression : {"1+1"}]
      [] cap = "examine_memory" -> [address : {"0x0"}, format_spec : {"x"}]
      [] cap = "disassemble_function" -> [function_name : {"main"}, mixed_mode : BOOLEAN]
      [] cap = "disassemble_address_range" ->
            [start_addr : {"0x1000"}, end_addr : {"0x1010"}, mixed_mode : BOOLEAN]
      [] cap = "disassemble_around_pc" -> [instruction_count : {10}, mixed_mode : BOOLEAN]
      [] cap \in {"get_local_variables", "get_function_arguments"} ->
            [print_values : BOOLEAN]
      [] cap = "get_stack_frames" ->
            [low_frame : {None, Some(0)}, high_frame : {None, Some(2)}]
      [] cap = "get_register_values" ->
            [register_numbers : {NoList, Some(<<>>), Some(<<0, 1>>)}]
      [] cap = "read_memory_bytes" -> [address : {"0x0"}, byte_count : {16}]
      [] cap = "switch_thread" -> [thread_id : {"2"}]
      [] cap \in {"delete_breakpoint", "enable_breakpoint", "disable_breakpoint"} ->
            [breakpoint_number : {"1"}]
      [] cap = "set_watchpoint" ->
            [expression : {"x", "*p"}, watch_type : {"write", "read", "access", "other"}]
      [] cap = "get_symbol_info" -> [symbol_name : {"main"}]
      [] OTHER -> {NoArgs}

\* "1" if flag else "0"
Flag01(flag) == IF flag THEN "1" ELSE "0"

\* " ".join(map(str, numbers))
RECURSIVE JoinNumbers(_)
JoinNumbers(numbers) ==
    IF Len(numbers) = 0 THEN <<>>
    ELSE IF Len(numbers) = 1 THEN <<ToString(numbers[1])>>
    ELSE <<ToString(numbers[1]), " ">> \o JoinNumbers(Tail(numbers))

\* The command line a capability hands to gdb.write().
Command(cap, a) ==
    CASE cap = "load_program" -> <<"file ", a.path>>
      [] cap = "execute_command" -> <<a.command>>
      [] cap = "attach_to_process" -> <<"attach ", ToString(a.pid)>>
      [] cap = "load_core_dump" -> <<"core ", a.path>>
      [] cap = "set_breakpoint" -> <<"break ", a.location>>
      [] cap = "continue_execution" -> <<"continue">>
      [] cap = "step_execution" -> <<"step">>
      [] cap = "next_execution" -> <<"next">>
      [] cap = "finish_function" -> <<"finish">>
      [] cap = "get_backtrace" -> <<"backtrace">>
      [] cap = "print_expression" -> <<"print ", a.expression>>
      [] cap = "examine_memory" -> <<"x/", a.format_spec, " ", a.address>>
      [] cap = "get_registers" -> <<"info registers">>
      [] cap = "disassemble_function" ->
            <<"-data-disassemble -f ", a.function_name, " -- ", Flag01(a.mixed_mode)>>
      [] cap = "disassemble_address_range" ->
            <<"-data-disassemble -s ", a.start_addr, " -e ", a.end_addr, " -- ",
              Flag01(a.mixed_mode)>>
      [] cap = "disassemble_around_pc" ->
            <<"-data-disassemble -s $pc -e \"$pc + ", ToString(a.instruction_count * 4),
              "\" -- ", Flag01(a.mixed_mode)>>
      [] cap = "get_local_variables" -> <<"-stack-list-locals ", Flag01(a.print_values)>>
      [] cap = "get_function_arguments" ->
            <<"-stack-list-arguments ", Flag01(a.print_values)>>
      [] cap = "get_stack_frames" ->
            IF a.low_frame.some /\ a.high_frame.some
            THEN <<"-stack-list-frames ", ToString(a.low_frame.v), " ",
                   ToString(a.high_frame.v)>>
            ELSE <<"-stack-list-frames">>
      [] cap = "evaluate_expression" ->
            <<"-data-evaluate-expression \"", a.expression, "\"">>
      [] cap = "get_register_names" -> <<"-data-list-register-names">>
      [] cap = "get_register_values" ->
            IF a.register_numbers.some /\ Len(a.register_numbers.v) > 0
            THEN <<"-data-list-register-values x ">> \o JoinNumbers(a.register_numbers.v)
            ELSE <<"-data-list-register-values x">>
      [] cap = "get_changed_registers" -> <<"-data-list-changed-registers">>
      [] cap = "read_memory_bytes" ->
            <<"-data-read-memory-bytes ", a.address, " ", ToString(a.byte_count)>>
      [] cap = "get_thread_info" -> <<"-thread-info">>
      [] cap = "switch_thread" -> <<"-thread-select ", a.thread_id>>
      [] cap = "get_breakpoint_list" -> <<"-break-list">>
      [] cap = "delete_breakpoint" -> <<"-break-delete ", a.breakpoint_number>>
      [] cap = "enable_breakpoint" -> <<"-break-enable ", a.breakpoint_number>>
      [] cap = "disable_breakpoint" -> <<"-break-disable ", a.breakpoint_number>>
      [] cap = "set_watchpoint" ->
            IF a.watch_type = "read" THEN <<"-break-watch -r ", a.expression>>
            ELSE IF a.watch_type = "access" THEN <<"-break-watch -a ", a.expression>>
            ELSE <<"-break-watch ", a.expression>>
      [] cap = "get_symbol_info" -> <<"-symbol-info-functions --name ", a.symbol_name>>
      [] cap = "list_source_files" -> <<"-file-list-exec-source-files">>

(***************************************************************************)
(* Reply messages.  A field of a message dict is a Python value, or is     *)
(* Absent when the dict has no such key.                                   *)
(***************************************************************************)
Str(s) == [t |-> "str", s |-> s]

PyNone == [t |-> "NoneType", s |-> "None"]

EmptyDict == [t |-> "dict", s |-> "{}"]

Dict(repr) == [t |-> "dict", s |-> repr]

Absent == [t |-> "absent", s |-> ""]

Msg(type, message, payload) == [type |-> type, message |-> message, payload |-> payload]

\* msg.get(key, default)
Get(value, default) == IF value.t = "absent" THEN Str(default) ELSE value

\* Mutant of Truthy: the payload is tested with `is not None` instead of for
\* truthiness.
TruthyIsNotNone(value) == value.t # "NoneType"

\* bool(value)
Truthy(value) ==
    CASE value.t = "str" -> value.s # ""
      [] value.t = "NoneType" -> FALSE
      [] value.t = "dict" -> value.s # "{}"
      [] OTHER -> TRUE

\* value == literal, for a string literal
EqualsStr(value, literal) == value.t = "str" /\ value.s = literal

\* str(value), also what an f-string interpolates
StrOf(value) == value.s

\* str.title() on the message kinds the model uses.
TitleTable ==
    [ unknown |-> "Unknown", notify |-> "Notify", output |-> "Output", done |-> "Done" ]

Title(s) == TitleTable[s]

\* The line format_gdb_response appends for one message (its loop body).
FormatLine(msg) ==
    LET msg_type == Get(msg.type, "unknown")
        payload == Get(msg.payload, "")
    IN  IF EqualsStr(msg_type, "console") THEN <<"Console: ", StrOf(payload)>>
        ELSE IF EqualsStr(msg_type, "log") THEN <<"Log: ", StrOf(payload)>>
        ELSE IF EqualsStr(msg_type, "target") THEN <<"Target: ", StrOf(payload)>>
        ELSE IF EqualsStr(msg_type, "result") THEN
            LET message == Get(msg.message, "")
            IN  IF EqualsStr(message, "done")
                THEN LET payload_str == IF Truthy(payload) THEN StrOf(payload)
                                        ELSE "Command completed successfully"
                     IN  <<"Result: ", payload_str>>
                ELSE <<"Result (", StrOf(message), "): ", StrOf(payload)>>
        ELSE <<Title(msg_type.s), ": ", StrOf(payload)>>

\* msg_type.title() exists only on a str: any other kind value raises AttributeError.
LineRaises(msg) ==
    LET msg_type == Get(msg.type, "unknown")
    IN  /\ ~EqualsStr(msg_type, "console")
        /\ ~EqualsStr(msg_type, "log")
        /\ ~EqualsStr(msg_type, "target")
        /\ ~EqualsStr(msg_type, "result")
        /\ msg_type.t # "str"

NoTitleAttribute(msg) ==
    Exc("AttributeError",
        <<"'", Get(msg.type, "unknown").t, "' object has no attribute 'title'">>, "render")

\* '\n'.join(lines)
RECURSIVE JoinLines(_)
JoinLines(lines) ==
    IF Len(lines) = 0 THEN <<>>
    ELSE IF Len(lines) = 1 THEN lines[1]
    ELSE lines[1] \o <<"\n">> \o JoinLines(Tail(lines))

\* Mutant of format_gdb_response: the loop has no else branch, messages of any
\* other kind are skipped.
format_gdb_response_skips_other_kinds(response) ==
    LET Known(msg) == \E k \in {"console", "log", "target", "result"} :
                         EqualsStr(Get(msg.type, "unknown"), k)
        formatted_lines == SelectSeq([i \in DOMAIN response |->
                                         IF Known(response[i]) THEN FormatLine(response[i])
                                         ELSE <<>>],
                                     LAMBDA line : line # <<>>)
    IN  IF Len(response) = 0 THEN [ok |-> TRUE, text |-> <<"No response from GDB">>]
        ELSE [ok |-> TRUE,
              text |-> IF Len(formatted_lines) > 0 THEN JoinLines(formatted_lines)
                       ELSE <<"Command executed">>]

\* format_gdb_response(response): [ok |-> TRUE, text] or [ok |-> FALSE, exc].
format_gdb_response(response) ==
    IF Len(response) = 0 THEN [ok |-> TRUE, text |-> <<"No response from GDB">>]
    ELSE IF \E i \in DOMAIN response : LineRaises(response[i])
    THEN [ok |-> FALSE,
          exc |-> NoTitleAttribute(
                    response[CHOOSE i \in DOMAIN response :
                               /\ LineRaises(response[i])
                               /\ \A j \in 1..(i - 1) : ~LineRaises(response[j])])]
    ELSE LET formatted_lines == [i \in DOMAIN response |-> FormatLine(response[i])]
         IN  [ok |-> TRUE,
              text |-> IF Len(formatted_lines) > 0 THEN JoinLines(formatted_lines)
                       ELSE <<"Command executed">>]

\* The replies a debugger subprocess gives to a command in this model.
Replies ==
    { <<>>,
      <<Msg(Str("console"), Absent, Str("hello")), Msg(Str("result"), Str("done"), PyNone)>> }

(***************************************************************************)
(* State.                                                                  *)
(***************************************************************************)
VARIABLES
    sessions,       \* GDBSessionManager.sessions: the dict identifier -> handle
    issued,         \* the identifiers uuid.uuid4() has handed out so far
    procs,          \* procs[h]: the state of the subprocess behind handle h
    known,          \* the identifiers some create/start call has returned to a caller
    terminatedOk,   \* the identifiers for which terminate_session returned True
    precondFailed,  \* the identifiers a file capability refused a missing path for
    call            \* call[t]: the call caller t is in, its locals and its result

vars == <<sessions, issued, procs, known, terminatedOk, precondFailed, call>>

\* What a call gives back: a value of one kind, or an exception.
NoRet == [kind |-> "none", text |-> <<>>, flag |-> FALSE, handle |-> NoHandle, exc |-> ""]

RetText(text) == [NoRet EXCEPT !.kind = "text", !.text = text]

RetBool(flag) == [NoRet EXCEPT !.kind = "bool", !.flag = flag]

RetId(session_id) == [NoRet EXCEPT !.kind = "id", !.text = <<session_id>>]

RetList(ids) == [NoRet EXCEPT !.kind = "list", !.text = ids]

RetHandle(h) == [NoRet EXCEPT !.kind = "handle", !.handle = h]

RetRaise(exc) == [NoRet EXCEPT !.kind = "raise", !.exc = exc.type, !.text = exc.msg]

\* A caller between two calls.
Idle ==
    [ pc |-> "idle", op |-> "none", via |-> "manager", sid |-> "", arg |-> NoArgs,
      gdb |-> NoHandle, sent |-> <<>>, absentAtCall |-> FALSE,
      caught |-> "", caughtFrom |-> "", ret |-> NoRet ]

\* The frame of a call at its entry.
Enter(op, via, sid, arg, pc) ==
    [ Idle EXCEPT !.pc = pc, !.op = op, !.via = via, !.sid = sid, !.arg = arg,
                  !.absentAtCall = ~HasKey(sessions, sid) ]

\* The call of frame c ends with ret; its local gdb goes out of scope.
Done(c, ret) == [c EXCEPT !.pc = "done", !.ret = ret, !.gdb = NoHandle]

\* The identifiers a caller can pass: one it was given, or one nobody was given.
UsableIds == known \cup BogusIds

\* The callers' frames other than t's are untouched by t's step.
Step(t, c) == call' = [call EXCEPT ![t] = c]

\* A caller takes the result of its call as soon as the call returns: nothing
\* else happens while a result waits to be taken.
NoResultPending == \A t \in Callers : call[t].pc # "done"

\* Caller t is at statement pc of a call.
AtPc(t, pc) == NoResultPending /\ call[t].pc = pc

At(t, op, pc) == AtPc(t, pc) /\ call[t].op = op

IsCapability(t) == call[t].op \in Capabilities

(***************************************************************************)
(* The facade boundary (GDBTools): what each method's try/except makes of  *)
(* the registry's or the subprocess layer's outcome.                       *)
(***************************************************************************)
\* The text an except clause of the facade puts before str(e).
FacadePrefix(op) ==
    CASE op = "create_session" -> "Error starting GDB session: "
      [] op = "terminate_session" -> "Error terminating session: "
      [] OTHER -> ErrorPrefix(op)

\* Mutant of Raised: the facade has no except clause, the exception goes through.
RaisedPropagates(c, exc) == Done(c, RetRaise(exc))

\* An exception leaves the registry method (or the subprocess layer) of frame c.
Raised(c, exc) ==
    IF c.via = "facade"
    THEN Done([c EXCEPT !.caught = exc.type, !.caughtFrom = exc.layer],
              RetText(<<FacadePrefix(c.op)>> \o exc.msg))
    ELSE Done(c, RetRaise(exc))

\* GDBTools.list_sessions: the text for the identifiers the registry listed.
RECURSIVE SessionLines(_)
SessionLines(ids) ==
    IF Len(ids) = 0 THEN <<>>
    ELSE IF Len(ids) = 1 THEN <<"- ", ids[1]>>
    ELSE <<"- ", ids[1], "\n">> \o SessionLines(Tail(ids))

\* Mutant of FacadeListText: only the first identifier is listed.
FacadeListTextFirstOnly(ids) ==
    IF Len(ids) = 0 THEN <<"No active GDB sessions">>
    ELSE <<"Active GDB sessions:\n", "- ", ids[1]>>

FacadeListText(ids) ==
    IF Len(ids) = 0 THEN <<"No active GDB sessions">>
    ELSE <<"Active GDB sessions:\n">> \o SessionLines(ids)

\* Mutant of Returned: the facade's terminate_session does not look at the bool
\* the registry returned.
ReturnedIgnoresFlag(c, ret) ==
    IF c.via # "facade" THEN Done(c, ret)
    ELSE CASE c.op = "create_session" ->
                Done(c, RetText(<<"GDB session started successfully. Session ID: ",
                                  ret.text[1]>>))
           [] c.op = "terminate_session" ->
                Done(c, RetText(<<"GDB session '", c.sid, "' terminated successfully">>))
           [] c.op = "list_sessions" -> Done(c, RetText(FacadeListText(ret.text)))
           [] OTHER -> Done(c, ret)

\* The registry method of frame c returns ret.
Returned(c, ret) ==
    IF c.via # "facade" THEN Done(c, ret)
    ELSE CASE c.op = "create_session" ->
                Done(c, RetText(<<"GDB session started successfully. Session ID: ",
                                  ret.text[1]>>))
           [] c.op = "terminate_session" ->
                Done(c, RetText(IF ret.flag
                                THEN <<"GDB session '", c.sid, "' terminated successfully">>
                                ELSE <<"GDB session '", c.sid, "' not found">>))
           [] c.op = "list_sessions" -> Done(c, RetText(FacadeListText(ret.text)))
           [] OTHER -> Done(c, ret)

(***************************************************************************)
(* GDBSessionManager.create_session, also under GDBTools.start_session.    *)
(***************************************************************************)
\* uuid.uuid4(): an identifier that was never handed out before.  Identifiers are
\* opaque, so the k-th one handed out is taken to be UuidNames[k].
uuid4 == UuidNames[Cardinality(issued) + 1]

\* GdbController(...): a new object.  Objects are opaque too, so the one the call
\* that drew UuidNames[k] constructs is taken to be handle k.
NewHandle(session_id) == CHOOSE k \in 1..MaxUuids : UuidNames[k] = session_id

\* Mutant of create_session_begin: the identifier is derived from the number of
\* registered sessions instead of a random draw.
create_session_begin_counter(t, via, gdb_path) ==
    /\ AtPc(t, "idle")
    /\ Len(sessions) < MaxUuids
    /\ issued' = issued \cup {UuidNames[Len(sessions) + 1]}
    /\ Step(t, Enter("create_session", via, UuidNames[Len(sessions) + 1],
                     [gdb_path |-> gdb_path], "c_spawn"))
    /\ UNCHANGED <<sessions, procs, known, terminatedOk, precondFailed>>

\* session_id = str(uuid.uuid4())
create_session_begin(t, via, gdb_path) ==
    /\ AtPc(t, "idle")
    /\ Cardinality(issued) < MaxUuids
    /\ issued' = issued \cup {uuid4}
    /\ Step(t, Enter("create_session", via, uuid4, [gdb_path |-> gdb_path], "c_spawn"))
    /\ UNCHANGED <<sessions, procs, known, terminatedOk, precondFailed>>

\* Mutant of create_session_spawn: the identifier is registered before the
\* subprocess is spawned, and a failed spawn leaves that entry behind.
create_session_spawn_registers_first(t) ==
    /\ At(t, "create_session", "c_spawn")
    /\ sessions' = Insert(sessions, call[t].sid, NoHandle)
    /\ IF call[t].arg.gdb_path \in Executables
       THEN /\ procs' = [procs EXCEPT ![NewHandle(call[t].sid)] = "running"]
            /\ Step(t, [call[t] EXCEPT !.pc = "c_store", !.gdb = NewHandle(call[t].sid)])
       ELSE /\ Step(t, Raised(call[t], SpawnError(call[t].arg.gdb_path)))
            /\ UNCHANGED procs
    /\ UNCHANGED <<issued, known, terminatedOk, precondFailed>>

\* Mutant of create_session_spawn: one controller, made for the first session, is
\* handed to every session.
create_session_spawn_shared(t) ==
    /\ At(t, "create_session", "c_spawn")
    /\ IF call[t].arg.gdb_path \in Executables
       THEN /\ procs' = [procs EXCEPT ![1] = "running"]
            /\ Step(t, [call[t] EXCEPT !.pc = "c_store", !.gdb = 1])
       ELSE /\ Step(t, Raised(call[t], SpawnError(call[t].arg.gdb_path)))
            /\ UNCHANGED procs
    /\ UNCHANGED <<sessions, issued, known, terminatedOk, precondFailed>>

\* gdb_controller = GdbController(command=[gdb_path]); on failure: log and re-raise
create_session_spawn(t) ==
    /\ At(t, "create_session", "c_spawn")
    /\ IF call[t].arg.gdb_path \in Executables
       THEN /\ procs' = [procs EXCEPT ![NewHandle(call[t].sid)] = "running"]
            /\ Step(t, [call[t] EXCEPT !.pc = "c_store", !.gdb = NewHandle(call[t].sid)])
       ELSE /\ Step(t, Raised(call[t], SpawnError(call[t].arg.gdb_path)))
            /\ UNCHANGED procs
    /\ UNCHANGED <<sessions, issued, known, terminatedOk, precondFailed>>

\* Mutant of create_session_store: the identifier is returned but never stored.
create_session_store_skips(t) ==
    /\ At(t, "create_session", "c_store")
    /\ Step(t, Returned(call[t], RetId(call[t].sid)))
    /\ UNCHANGED <<sessions, issued, procs, known, terminatedOk, precondFailed>>

\* Mutant of create_session_store: the dictionary is replaced by one that holds
\* the new entry only (self.sessions = {session_id: gdb_controller}).
create_session_store_replaces(t) ==
    /\ At(t, "create_session", "c_store")
    /\ sessions' = <<<<call[t].sid, call[t].gdb>>>>
    /\ Step(t, Returned(call[t], RetId(call[t].sid)))
    /\ UNCHANGED <<issued, procs, known, terminatedOk, precondFailed>>

\* self.sessions[session_id] = gdb_controller; return session_id
create_session_store(t) ==
    /\ At(t, "create_session", "c_store")
    /\ sessions' = Insert(sessions, call[t].sid, call[t].gdb)
    /\ Step(t, Returned(call[t], RetId(call[t].sid)))
    /\ UNCHANGED <<issued, procs, known, terminatedOk, precondFailed>>

(***************************************************************************)
(* GDBSessionManager.get_session, called directly or by a capability.      *)
(***************************************************************************)
\* The text load_program / load_core_dump return for a missing file.
MissingFileText(cap, path) ==
    IF cap = "load_program"
    THEN <<"Error: Program file '", path, "' does not exist">>
    ELSE <<"Error: Core file '", path, "' does not exist">>

\* Mutant of Resolved: the path is not tested before the command is written.
ResolvedUnchecked(c, h) == [c EXCEPT !.gdb = h, !.pc = "w_send"]

\* A capability has its handle: gdb = ...get_session(session_id).  The two file
\* capabilities then test the path, which touches nothing the callers share:
\* if not Path(path).exists(): return f"Error: ... does not exist"
Resolved(c, h) ==
    IF c.op \in FileCapabilities /\ c.arg.path \notin ExistingFiles
    THEN Done(c, RetText(MissingFileText(c.op, c.arg.path)))
    ELSE [c EXCEPT !.gdb = h, !.pc = "w_send"]

get_session_begin(t, session_id) ==
    /\ AtPc(t, "idle")
    /\ Step(t, Enter("get_session", "manager", session_id, NoArgs, "g_check"))
    /\ UNCHANGED <<sessions, issued, procs, known, terminatedOk, precondFailed>>

\* Mutant of get_session_check: a capability whose identifier is absent falls back
\* to the first session's handle instead of failing.
get_session_check_falls_back(t) ==
    /\ AtPc(t, "g_check")
    /\ IF HasKey(sessions, call[t].sid)
       THEN Step(t, [call[t] EXCEPT !.pc = "g_fetch"])
       ELSE IF call[t].op = "get_session" \/ Len(sessions) = 0
       THEN Step(t, Raised(call[t], SessionNotFound(call[t].sid)))
       ELSE Step(t, Resolved(call[t], sessions[1][2]))
    /\ UNCHANGED <<sessions, issued, procs, known, terminatedOk, precondFailed>>

\* Mutant of get_session_check: an absent identifier gives None instead of raising
\* (self.sessions.get(session_id)).
get_session_check_mute(t) ==
    /\ AtPc(t, "g_check")
    /\ IF ~HasKey(sessions, call[t].sid)
       THEN Step(t, Done(call[t], RetHandle(NoHandle)))
       ELSE Step(t, [call[t] EXCEPT !.pc = "g_fetch"])
    /\ UNCHANGED <<sessions, issued, procs, known, terminatedOk, precondFailed>>

\* if session_id not in self.sessions: raise ValueError(...)
get_session_check(t) ==
    /\ AtPc(t, "g_check")
    /\ IF ~HasKey(sessions, call[t].sid)
       THEN Step(t, Raised(call[t], SessionNotFound(call[t].sid)))
       ELSE Step(t, [call[t] EXCEPT !.pc = "g_fetch"])
    /\ UNCHANGED <<sessions, issued, procs, known, terminatedOk, precondFailed>>

\* Mutant of get_session_fetch: a file capability that finds its path missing gives
\* the session up (its entry is deleted) before it returns the error text.
get_session_fetch_drops_on_missing_file(t, history) ==
    /\ AtPc(t, "g_fetch")
    /\ IF ~HasKey(sessions, call[t].sid)
       THEN /\ Step(t, Raised(call[t], KeyError(call[t].sid)))
            /\ UNCHANGED <<sessions, precondFailed>>
       ELSE IF call[t].op = "get_session"
       THEN /\ Step(t, Done(call[t], RetHandle(Lookup(sessions, call[t].sid))))
            /\ UNCHANGED <<sessions, precondFailed>>
       ELSE /\ Step(t, Resolved(call[t], Lookup(sessions, call[t].sid)))
            /\ IF call[t].op \in FileCapabilities /\ call[t].arg.path \notin ExistingFiles
               THEN /\ precondFailed' = IF history THEN precondFailed \cup {call[t].sid}
                                        ELSE precondFailed
                    /\ sessions' = Delete(sessions, call[t].sid)
               ELSE UNCHANGED <<sessions, precondFailed>>
    /\ UNCHANGED <<issued, procs, known, terminatedOk>>

\* return self.sessions[session_id]
\* precondFailed is a history variable: it is recorded where `history` is set and
\* stays empty elsewhere.
get_session_fetch(t, history) ==
    /\ AtPc(t, "g_fetch")
    /\ IF ~HasKey(sessions, call[t].sid)
       THEN Step(t, Raised(call[t], KeyError(call[t].sid)))
       ELSE IF call[t].op = "get_session"
       THEN Step(t, Done(call[t], RetHandle(Lookup(sessions, call[t].sid))))
       ELSE Step(t, Resolved(call[t], Lookup(sessions, call[t].sid)))
    /\ precondFailed' =
          IF /\ history
             /\ HasKey(sessions, call[t].sid)
             /\ call[t].op \in FileCapabilities
             /\ call[t].arg.path \notin ExistingFiles
          THEN precondFailed \cup {call[t].sid}
          ELSE precondFailed
    /\ UNCHANGED <<sessions, issued, procs, known, terminatedOk>>

(***************************************************************************)
(* GDBSessionManager.terminate_session, also under                         *)
(* GDBTools.terminate_session.                                             *)
(***************************************************************************)
terminate_session_begin(t, via, session_id) ==
    /\ AtPc(t, "idle")
    /\ Step(t, Enter("terminate_session", via, session_id, NoArgs, "t_check"))
    /\ UNCHANGED <<sessions, issued, procs, known, terminatedOk, precondFailed>>

\* Mutant of terminate_session_check: an absent identifier raises, as in get_session.
terminate_session_check_raises(t) ==
    /\ At(t, "terminate_session", "t_check")
    /\ IF ~HasKey(sessions, call[t].sid)
       THEN Step(t, Raised(call[t], SessionNotFound(call[t].sid)))
       ELSE Step(t, [call[t] EXCEPT !.pc = "t_fetch"])
    /\ UNCHANGED <<sessions, issued, procs, known, terminatedOk, precondFailed>>

\* if session_id not in self.sessions: return False
terminate_session_check(t) ==
    /\ At(t, "terminate_session", "t_check")
    /\ IF ~HasKey(sessions, call[t].sid)
       THEN Step(t, Returned(call[t], RetBool(FALSE)))
       ELSE Step(t, [call[t] EXCEPT !.pc = "t_fetch"])
    /\ UNCHANGED <<sessions, issued, procs, known, terminatedOk, precondFailed>>

\* gdb = self.sessions[session_id]; a KeyError lands in the except clause
terminate_session_fetch(t) ==
    /\ At(t, "terminate_session", "t_fetch")
    /\ IF ~HasKey(sessions, call[t].sid)
       THEN Step(t, Returned(call[t], RetBool(FALSE)))
       ELSE Step(t, [call[t] EXCEPT !.gdb = Lookup(sessions, call[t].sid), !.pc = "t_exit"])
    /\ UNCHANGED <<sessions, issued, procs, known, terminatedOk, precondFailed>>

\* Mutant of terminate_session_exit_ok: every debugger subprocess is told to exit,
\* not only the one of this session.
terminate_session_exit_all(t) ==
    /\ At(t, "terminate_session", "t_exit")
    /\ procs' = [h \in DOMAIN procs |-> IF procs[h] = "running" THEN "exiting" ELSE procs[h]]
    /\ Step(t, [call[t] EXCEPT !.pc = "t_del"])
    /\ UNCHANGED <<sessions, issued, known, terminatedOk, precondFailed>>

\* gdb.exit() goes through: the subprocess is told to exit
terminate_session_exit_ok(t) ==
    /\ At(t, "terminate_session", "t_exit")
    /\ procs' = [procs EXCEPT ![call[t].gdb] = IF @ = "running" THEN "exiting" ELSE @]
    /\ Step(t, [call[t] EXCEPT !.pc = "t_del"])
    /\ UNCHANGED <<sessions, issued, known, terminatedOk, precondFailed>>

\* gdb.exit() raises: except Exception: log; return False
terminate_session_exit_fails(t) ==
    /\ At(t, "terminate_session", "t_exit")
    /\ Step(t, Returned(call[t], RetBool(FALSE)))
    /\ UNCHANGED <<sessions, issued, procs, known, terminatedOk, precondFailed>>

\* Mutant of terminate_session_del: True is returned but the entry is not deleted.
terminate_session_del_keeps(t) ==
    /\ At(t, "terminate_session", "t_del")
    /\ terminatedOk' = terminatedOk \cup {call[t].sid}
    /\ Step(t, Returned(call[t], RetBool(TRUE)))
    /\ UNCHANGED <<sessions, issued, procs, known, precondFailed>>

\* del self.sessions[session_id]; return True; a KeyError lands in the except clause
terminate_session_del(t) ==
    /\ At(t, "terminate_session", "t_del")
    /\ IF HasKey(sessions, call[t].sid)
       THEN /\ sessions' = Delete(sessions, call[t].sid)
            /\ terminatedOk' = terminatedOk \cup {call[t].sid}
            /\ Step(t, Returned(call[t], RetBool(TRUE)))
       ELSE /\ Step(t, Returned(call[t], RetBool(FALSE)))
            /\ UNCHANGED <<sessions, terminatedOk>>
    /\ UNCHANGED <<issued, procs, known, precondFailed>>

(***************************************************************************)
(* GDBSessionManager.list_sessions (also under GDBTools.list_sessions)     *)
(* and GDBSessionManager.has_session: one dictionary operation each.       *)
(***************************************************************************)
\* The identifiers the object list_sessions returned gives when it is read while
\* the registry is `registry`: the list is a copy made at the call, whereas a keys
\* view would follow the dictionary.
Elements(ret, registry) == IF ret.kind = "view" THEN Keys(registry) ELSE ret.text

\* Mutant of list_sessions: the dictionary's keys view is returned, not a copy
\* (return self.sessions.keys()).
list_sessions_view(t, via) ==
    /\ AtPc(t, "idle")
    /\ Step(t, Done(Enter("list_sessions", via, "", NoArgs, "idle"),
                    [NoRet EXCEPT !.kind = "view"]))
    /\ UNCHANGED <<sessions, issued, procs, known, terminatedOk, precondFailed>>

\* return list(self.sessions.keys())
list_sessions(t, via) ==
    /\ AtPc(t, "idle")
    /\ Step(t, Returned(Enter("list_sessions", via, "", NoArgs, "idle"),
                        RetList(Keys(sessions))))
    /\ UNCHANGED <<sessions, issued, procs, known, terminatedOk, precondFailed>>

\* return session_id in self.sessions
has_session(t, session_id) ==
    /\ AtPc(t, "idle")
    /\ Step(t, Done(Enter("has_session", "manager", session_id, NoArgs, "idle"),
                    RetBool(HasKey(sessions, session_id))))
    /\ UNCHANGED <<sessions, issued, procs, known, terminatedOk, precondFailed>>

(***************************************************************************)
(* The capabilities of GDBTools that take a session identifier: resolve    *)
(* the session, test the precondition (the two file capabilities), write   *)
(* one command, render the reply; every exception becomes an error text.   *)
(***************************************************************************)
\* Mutant of capability_begin: the two file capabilities test the path before they
\* resolve the session.
capability_begin_file_first(t, cap, session_id, a) ==
    /\ AtPc(t, "idle")
    /\ IF cap \in FileCapabilities /\ a.path \notin ExistingFiles
       THEN Step(t, Done(Enter(cap, "facade", session_id, a, "idle"),
                         RetText(MissingFileText(cap, a.path))))
       ELSE Step(t, Enter(cap, "facade", session_id, a, "g_check"))
    /\ UNCHANGED <<sessions, issued, procs, known, terminatedOk, precondFailed>>

\* gdb = self.sessionManager.get_session(session_id), entered
capability_begin(t, cap, session_id, a) ==
    /\ AtPc(t, "idle")
    /\ Step(t, Enter(cap, "facade", session_id, a, "g_check"))
    /\ UNCHANGED <<sessions, issued, procs, known, terminatedOk, precondFailed>>

\* Mutant of gdb_write_send: one lock for all sessions, a write waits while any
\* other call has a command in flight.
gdb_write_send_global_lock(t) ==
    /\ IsCapability(t)
    /\ AtPc(t, "w_send")
    /\ \A u \in Callers \ {t} : call[u].pc # "w_recv"
    /\ procs[call[t].gdb] \in {"running", "exiting"}
    /\ Step(t, [call[t] EXCEPT
                  !.pc = "w_recv",
                  !.sent = Append(@, [handle |-> call[t].gdb,
                                      command |-> Command(call[t].op, call[t].arg)])])
    /\ UNCHANGED <<sessions, issued, procs, known, terminatedOk, precondFailed>>

\* Mutant of gdb_write_send: the command line is written twice.
gdb_write_send_twice(t) ==
    /\ IsCapability(t)
    /\ AtPc(t, "w_send")
    /\ procs[call[t].gdb] \in {"running", "exiting"}
    /\ Step(t, [call[t] EXCEPT
                  !.pc = "w_recv",
                  !.sent = @ \o <<[handle |-> call[t].gdb,
                                   command |-> Command(call[t].op, call[t].arg)],
                                  [handle |-> call[t].gdb,
                                   command |-> Command(call[t].op, call[t].arg)]>>])
    /\ UNCHANGED <<sessions, issued, procs, known, terminatedOk, precondFailed>>

\* Mutant of gdb_write_send: get_stack_frames tests its bounds for truth, so a
\* bound of 0 counts as missing (if low_frame and high_frame).
gdb_write_send_truthy_frames(t) ==
    /\ IsCapability(t)
    /\ AtPc(t, "w_send")
    /\ procs[call[t].gdb] \in {"running", "exiting"}
    /\ Step(t, [call[t] EXCEPT
                  !.pc = "w_recv",
                  !.sent = Append(@, [handle |-> call[t].gdb,
                                      command |->
                                        IF /\ call[t].op = "get_stack_frames"
                                           /\ \/ call[t].arg.low_frame.v = 0
                                              \/ call[t].arg.high_frame.v = 0
                                        THEN <<"-stack-list-frames">>
                                        ELSE Command(call[t].op, call[t].arg)])])
    /\ UNCHANGED <<sessions, issued, procs, known, terminatedOk, precondFailed>>

\* Mutant of gdb_write_send: set_watchpoint ignores the watch kind.
gdb_write_send_plain_watch(t) ==
    /\ IsCapability(t)
    /\ AtPc(t, "w_send")
    /\ procs[call[t].gdb] \in {"running", "exiting"}
    /\ Step(t, [call[t] EXCEPT
                  !.pc = "w_recv",
                  !.sent = Append(@, [handle |-> call[t].gdb,
                                      command |->
                                        IF call[t].op = "set_watchpoint"
                                        THEN <<"-break-watch ", call[t].arg.expression>>
                                        ELSE Command(call[t].op, call[t].arg)])])
    /\ UNCHANGED <<sessions, issued, procs, known, terminatedOk, precondFailed>>

\* gdb.write(command): the command line goes down the subprocess's pipe
gdb_write_send(t) ==
    /\ IsCapability(t)
    /\ AtPc(t, "w_send")
    /\ procs[call[t].gdb] \in {"running", "exiting"}
    /\ Step(t, [call[t] EXCEPT
                  !.pc = "w_recv",
                  !.sent = Append(@, [handle |-> call[t].gdb,
                                      command |-> Command(call[t].op, call[t].arg)])])
    /\ UNCHANGED <<sessions, issued, procs, known, terminatedOk, precondFailed>>

\* gdb.write(command) on a subprocess that is exiting or gone: the pipe is broken
gdb_write_broken(t) ==
    /\ IsCapability(t)
    /\ AtPc(t, "w_send")
    /\ procs[call[t].gdb] \in {"exiting", "dead"}
    /\ Step(t, Raised(call[t], BrokenPipe))
    /\ UNCHANGED <<sessions, issued, procs, known, terminatedOk, precondFailed>>

\* response = gdb.write(...) returns; return format_gdb_response(response)
gdb_write_reply(t) ==
    /\ IsCapability(t)
    /\ AtPc(t, "w_recv")
    /\ \E response \in Replies :
          LET rendered == format_gdb_response(response)
          IN  IF rendered.ok
              THEN Step(t, Done(call[t], RetText(rendered.text)))
              ELSE Step(t, Raised(call[t], rendered.exc))
    /\ UNCHANGED <<sessions, issued, procs, known, terminatedOk, precondFailed>>

\* Mutant of gdb_write_fails: a failed command also drops the session's entry.
gdb_write_fails_drops_session(t) ==
    /\ IsCapability(t)
    /\ AtPc(t, "w_recv")
    /\ \E exc \in ProcessFailures : Step(t, Raised(call[t], exc))
    /\ sessions' = Delete(sessions, call[t].sid)
    /\ UNCHANGED <<issued, procs, known, terminatedOk, precondFailed>>

\* gdb.write(...) raises while it waits for the reply (timeout, broken pipe,
\* malformed reply)
gdb_write_fails(t) ==
    /\ IsCapability(t)
    /\ AtPc(t, "w_recv")
    /\ \E exc \in ProcessFailures : Step(t, Raised(call[t], exc))
    /\ UNCHANGED <<sessions, issued, procs, known, terminatedOk, precondFailed>>

(***************************************************************************)
(* The environment: a caller takes its result, a subprocess goes away.     *)
(***************************************************************************)
\* The identifier a finished create_session / start_session gave its caller.
ReturnedIds(c) ==
    IF c.op # "create_session" THEN {}
    ELSE IF c.ret.kind = "id" THEN {c.sid}
    ELSE IF c.ret.kind = "text"
            /\ c.ret.text[1] = "GDB session started successfully. Session ID: "
    THEN {c.ret.text[2]}
    ELSE {}

TakeResult(t) ==
    /\ call[t].pc = "done"
    /\ known' = known \cup ReturnedIds(call[t])
    /\ Step(t, Idle)
    /\ UNCHANGED <<sessions, issued, procs, terminatedOk, precondFailed>>

\* sessions = manager.list_sessions(): the caller keeps the returned object ...
keep_list(t) ==
    /\ call[t].pc = "done"
    /\ call[t].op = "list_sessions"
    /\ call[t].via = "manager"
    /\ Step(t, [call[t] EXCEPT !.pc = "holding"])
    /\ UNCHANGED <<sessions, issued, procs, known, terminatedOk, precondFailed>>

\* ... and lets go of it later.
drop_list(t) ==
    /\ AtPc(t, "holding")
    /\ Step(t, Idle)
    /\ UNCHANGED <<sessions, issued, procs, known, terminatedOk, precondFailed>>

\* The subprocess behind handle h ends: it finishes exiting, or it crashes.
ProcessExits(h) ==
    /\ NoResultPending
    /\ procs[h] \in {"running", "exiting"}
    /\ procs' = [procs EXCEPT ![h] = "dead"]
    /\ UNCHANGED <<sessions, issued, known, terminatedOk, precondFailed, call>>

(***************************************************************************)
(* The sessions resource of server.py.  It reads the registry server.py    *)
(* constructs at import (sessionManager = GDBSessionManager()), not the    *)
(* registry of a facade constructed elsewhere.                             *)
(***************************************************************************)
\* server.sessionManager.sessions: empty when constructed, and written only by
\* the tools of server.py, none of which a caller of another facade invokes.
serverSessions == <<>>

\* "Session ID: <id>" lines, joined by newlines
RECURSIVE SessionInfo(_)
SessionInfo(ids) ==
    IF Len(ids) = 0 THEN <<>>
    ELSE IF Len(ids) = 1 THEN <<"Session ID: ", ids[1]>>
    ELSE <<"Session ID: ", ids[1], "\n">> \o SessionInfo(Tail(ids))

\* The text of the resource for the identifiers of a registry.
ResourceText(ids) ==
    IF Len(ids) = 0 THEN <<"No active GDB sessions">>
    ELSE <<"Active GDB Sessions:\n">> \o SessionInfo(ids)

\* sessions = sessionManager.list_sessions(); ...; return the text
list_gdb_sessions(t) ==
    /\ AtPc(t, "idle")
    /\ Step(t, Done(Enter("list_gdb_sessions", "server", "", NoArgs, "idle"),
                    RetText(ResourceText(Keys(serverSessions)))))
    /\ UNCHANGED <<sessions, issued, procs, known, terminatedOk, precondFailed>>

(***************************************************************************)
(* The specification: GDBSessionManager.__init__ leaves an empty registry. *)
(***************************************************************************)
Vias == {"manager", "facade"}

Init ==
    /\ sessions = <<>>
    /\ issued = {}
    /\ procs = [h \in 1..MaxUuids |-> "unborn"]
    /\ known = {}
    /\ terminatedOk = {}
    /\ precondFailed = {}
    /\ call = [t \in Callers |-> Idle]

\* The steps of the callers in `callers`, who call the registry directly or through
\* the facade as `vias` says, and whose capability calls are among `caps`.
NextOf(callers, vias, caps, history) ==
    \/ \E t \in callers, via \in vias, gdb_path \in GdbPaths :
            create_session_begin(t, via, gdb_path)
    \/ \E t \in callers : create_session_spawn(t)
    \/ \E t \in callers : create_session_store(t)
    \/ \E t \in callers, session_id \in UsableIds : get_session_begin(t, session_id)
    \/ \E t \in callers : get_session_check(t)
    \/ \E t \in callers : get_session_fetch(t, history)
    \/ \E t \in callers, via \in vias, session_id \in UsableIds :
            terminate_session_begin(t, via, session_id)
    \/ \E t \in callers : terminate_session_check(t)
    \/ \E t \in callers : terminate_session_fetch(t)
    \/ \E t \in callers : terminate_session_exit_ok(t)
    \/ \E t \in callers : terminate_session_exit_fails(t)
    \/ \E t \in callers : terminate_session_del(t)
    \/ \E t \in callers, via \in vias : list_sessions(t, via)
    \/ \E t \in callers, session_id \in UsableIds : has_session(t, session_id)
    \/ \E t \in callers, cap \in caps, session_id \in UsableIds :
            \E a \in Args(cap) : capability_begin(t, cap, session_id, a)
    \/ \E t \in callers : gdb_write_send(t)
    \/ \E t \in callers : gdb_write_broken(t)
    \/ \E t \in callers : gdb_write_reply(t)
    \/ \E t \in callers : gdb_write_fails(t)
    \/ \E h \in DOMAIN procs : ProcessExits(h)
    \/ \E t \in callers : TakeResult(t)

\* The capability whose calls race in Spec: the passthrough.  The capabilities
\* differ in their command line, their error prefix and the file precondition,
\* none of which reads or writes what the callers share.
RaceCapabilities == {"execute_command"}

\* Every interleaving of the callers' direct registry calls and of their calls of
\* the capabilities in RaceCapabilities.
Next == NextOf(Callers, {"manager"}, RaceCapabilities, FALSE)

\* One caller, making one call after the other: the registry directly and through
\* the facade, every capability with every argument.
NextFacade == NextOf({"A"}, Vias, Capabilities, FALSE)

Spec == Init /\ [][Next]_vars

SpecFacade == Init /\ [][NextFacade]_vars

\* The interleavings of Spec, with callers that keep a listing they were given
\* while the other caller goes on.
NextSnapshot ==
    \/ NextOf(Callers, {"manager"}, RaceCapabilities, FALSE)
    \/ \E t \in Callers : keep_list(t)
    \/ \E t \in Callers : drop_list(t)

SpecSnapshot == Init /\ [][NextSnapshot]_vars

\* One caller driving a facade built on its own registry, and reading the sessions
\* resource of server.py in between.
NextResource ==
    \/ NextOf({"A"}, {"facade"}, RaceCapabilities, FALSE)
    \/ \E t \in {"A"} : list_gdb_sessions(t)

SpecResource == Init /\ [][NextResource]_vars

\* The capabilities of the recovery scenario: the two loads and a later command.
RecoveryCapabilities == FileCapabilities \cup {"execute_command"}

\* One caller going through the facade, with the history of refused loads recorded.
NextRecovery == NextOf({"A"}, Vias, RecoveryCapabilities, TRUE)

SpecRecovery == Init /\ [][NextRecovery]_vars

(***************************************************************************)
(* format_gdb_response on its own, as the tests call it: applied once to   *)
(* every reply sequence of at most MaxReplyLen messages.                   *)
(***************************************************************************)
\* The kinds of message the debugger interface's parser produces, and a message
\* without a kind.
MessageKinds ==
    { Str("console"), Str("log"), Str("target"), Str("result"), Str("notify"),
      Str("output"), Absent }

\* The status of a result message.
Statuses == { Str("done"), Str("error"), Str("running"), Absent }

Payloads == { Str("hello"), Str(""), PyNone, Absent, EmptyDict, Dict("{'bkpt': '1'}") }

Messages ==
    { Msg(type, message, payload) :
        type \in MessageKinds \ {Str("result")}, message \in {Absent}, payload \in Payloads }
    \cup { Msg(Str("result"), message, payload) : message \in Statuses, payload \in Payloads }

Responses == UNION { [1..n -> Messages] : n \in 0..MaxReplyLen }

InitRender ==
    /\ sessions = <<>>
    /\ issued = {}
    /\ procs = [h \in 1..MaxUuids |-> "unborn"]
    /\ known = {}
    /\ terminatedOk = {}
    /\ precondFailed = {}
    /\ \E response \in Responses :
          call = [t \in Callers |->
                    IF t = "A"
                    THEN [Idle EXCEPT !.pc = "f_call", !.op = "format_gdb_response",
                                      !.arg = [response |-> response]]
                    ELSE Idle]

\* result = format_gdb_response(response)
format_call(t) ==
    /\ At(t, "format_gdb_response", "f_call")
    /\ LET rendered == format_gdb_response(call[t].arg.response)
       IN  IF rendered.ok
           THEN Step(t, Done(call[t], RetText(rendered.text)))
           ELSE Step(t, Done(call[t], RetRaise(rendered.exc)))
    /\ UNCHANGED <<sessions, issued, procs, known, terminatedOk, precondFailed>>

NextRender == \E t \in Callers : format_call(t)

SpecRender == InitRender /\ [][NextRender]_vars

\* format_gdb_response applied to message dicts of any shape: a kind, status or
\* payload that is missing, None or not a string.
Number(n) == [t |-> "int", s |-> n]

ShapeKinds == { Str("console"), Str("result"), Str("notify"), Absent, PyNone, Number("7") }

ShapeStatuses == { Str("done"), Absent, PyNone }

ShapePayloads == { Str("hello"), Absent, PyNone, Number("7") }

ShapeMessages ==
    { Msg(type, message, payload) :
        type \in ShapeKinds \ {Str("result")}, message \in {Absent}, payload \in ShapePayloads }
    \cup { Msg(Str("result"), message, payload) :
             message \in ShapeStatuses, payload \in ShapePayloads }

ShapeResponses == UNION { [1..n -> ShapeMessages] : n \in 0..MaxReplyLen }

InitShapes ==
    /\ sessions = <<>>
    /\ issued = {}
    /\ procs = [h \in 1..MaxUuids |-> "unborn"]
    /\ known = {}
    /\ terminatedOk = {}
    /\ precondFailed = {}
    /\ \E response \in ShapeResponses :
          call = [t \in Callers |->
                    IF t = "A"
                    THEN [Idle EXCEPT !.pc = "f_call", !.op = "format_gdb_response",
                                      !.arg = [response |-> response]]
                    ELSE Idle]

SpecShapes == InitShapes /\ [][NextRender]_vars

(***************************************************************************)
(* Properties.                                                             *)
(***************************************************************************)
\* Caller t holds the result of a call of op.
Finished(t, op) == call[t].pc = "done" /\ call[t].op = op

\* The identifiers in a listing.
Listed(ids) == {ids[i] : i \in DOMAIN ids}

\* C1: once terminate_session(id) has returned True, id is never registered again:
\* has_session(id) is False, list_sessions() does not hold id, and a get_session(id)
\* called from then on raises the session-not-found error, whatever the state of
\* the subprocess.
C1_TerminatedStaysGone ==
    \A id \in terminatedOk :
        /\ ~HasKey(sessions, id)
        /\ id \notin Listed(Keys(sessions))
        /\ \A t \in Callers :
              /\ (Finished(t, "has_session") /\ call[t].sid = id) => ~call[t].ret.flag
              /\ Finished(t, "list_sessions") => id \notin Listed(call[t].ret.text)
              /\ (Finished(t, "get_session") /\ call[t].sid = id /\ call[t].absentAtCall)
                    => /\ call[t].ret = RetRaise(SessionNotFound(id))
                       /\ ContainsNotFound(call[t].ret.text)

\* C1 witness: get_session on a terminated identifier has raised while the
\* subprocess is still exiting.
C1_Witness ==
    \E id \in terminatedOk, t \in Callers :
        /\ Finished(t, "get_session")
        /\ call[t].sid = id
        /\ call[t].ret.kind = "raise"
        /\ procs[NewHandle(id)] = "exiting"

\* C2: a create_session call that returns gives an identifier that is registered
\* (has_session, and in list_sessions) when it returns; otherwise it raises.
C2_CreateReturnsRegistered ==
    \A t \in Callers :
        (Finished(t, "create_session") /\ call[t].via = "manager")
            => \/ call[t].ret.kind = "raise"
               \/ /\ call[t].ret.kind = "id"
                  /\ HasKey(sessions, call[t].ret.text[1])
                  /\ call[t].ret.text[1] \in Listed(Keys(sessions))

\* C2 witness: a create_session has returned an identifier while the other caller
\* is in the middle of a call.
C2_Witness ==
    \E t \in Callers, u \in Callers :
        /\ Finished(t, "create_session")
        /\ call[t].ret.kind = "id"
        /\ call[u].pc \notin {"idle", "done"}

\* C3: get_session called with an identifier that is not registered raises the
\* session-not-found ValueError, and no step of the call changes the registry.
C3_GetSessionUnknown ==
    [][\A t \in Callers :
          (/\ call[t].op = "get_session"
           /\ call[t].absentAtCall
           /\ call'[t] # call[t])
          => /\ sessions' = sessions
             /\ call[t].pc = "g_check"
                  => /\ call'[t].pc = "done"
                     /\ call'[t].ret = RetRaise(SessionNotFound(call[t].sid))
                     /\ call'[t].ret.exc = "ValueError"
                     /\ ContainsNotFound(call'[t].ret.text)]_vars

\* C3 witness: get_session has raised for an identifier that was terminated.
C3_Witness ==
    \E t \in Callers :
        /\ Finished(t, "get_session")
        /\ call[t].sid \in terminatedOk
        /\ call[t].ret.exc = "ValueError"

\* C4: a capability called with an identifier that is not registered returns a
\* text containing "not found", raises nothing and writes no command.
C4_CapabilityUnknownSession ==
    \A t \in Callers :
        (call[t].pc = "done" /\ call[t].op \in Capabilities /\ call[t].absentAtCall)
            => /\ call[t].ret.kind = "text"
               /\ ContainsNotFound(call[t].ret.text)
               /\ call[t].sent = <<>>

\* C4 witness: a machine-interface capability has answered for a terminated session.
C4_Witness ==
    \E t \in Callers :
        /\ Finished(t, "set_watchpoint")
        /\ call[t].sid \in terminatedOk
        /\ ContainsNotFound(call[t].ret.text)

\* C5: a facade call never raises: it returns a text, and when the subprocess layer
\* failed under a capability the text is the capability's "Error ...: " prefix
\* followed by the failure's detail.
C5_FacadeNeverRaises ==
    \A t \in Callers :
        (call[t].pc = "done" /\ call[t].via = "facade")
            => /\ call[t].ret.kind = "text"
               /\ (call[t].op \in Capabilities /\ call[t].caughtFrom = "process")
                    => \E exc \in ProcessFailures :
                          /\ exc.type = call[t].caught
                          /\ call[t].ret.text = <<ErrorPrefix(call[t].op)>> \o exc.msg

\* C5 witness: a capability has turned a timeout of a written command into a text.
C5_Witness ==
    \E t \in Callers :
        /\ call[t].pc = "done"
        /\ call[t].op \in Capabilities
        /\ call[t].caught = "GdbTimeoutError"
        /\ call[t].sent # <<>>

\* C6 as claimed: after any terminate_session call on a registered identifier the
\* identifier is no longer registered, also when exit() failed and the call
\* returned False.
C6_TerminateAlwaysRemoves ==
    \A t \in Callers :
        (Finished(t, "terminate_session") /\ ~call[t].absentAtCall)
            => ~HasKey(sessions, call[t].sid)

\* C7: terminate_session called with an identifier that is not registered returns
\* False, raises nothing, invokes no exit and leaves the registry unchanged.
C7_TerminateAbsentIsNoOp ==
    [][\A t \in Callers :
          (/\ call[t].op = "terminate_session"
           /\ call[t].absentAtCall
           /\ call'[t] # call[t])
          => /\ sessions' = sessions
             /\ procs' = procs
             /\ call[t].pc # "done"
                  => /\ call'[t].pc = "done"
                     /\ call'[t].ret = RetBool(FALSE)]_vars

\* C7 witness: a second terminate_session on a terminated identifier returned False.
C7_Witness ==
    \E t \in Callers :
        /\ Finished(t, "terminate_session")
        /\ call[t].absentAtCall
        /\ call[t].sid \in terminatedOk
        /\ call[t].ret = RetBool(FALSE)

\* C8: when create_session cannot spawn the debugger, the error reaches the caller
\* and no step of the call changes the registry: no entry is left for the
\* identifier it generated.
C8_FailedCreateLeavesRegistry ==
    [][\A t \in Callers :
          (/\ call[t].op = "create_session"
           /\ call[t].arg.gdb_path \notin Executables
           /\ call'[t] # call[t])
          => /\ sessions' = sessions
             /\ ~HasKey(sessions', call[t].sid)
             /\ call[t].pc = "c_spawn"
                  => /\ call'[t].pc = "done"
                     /\ call'[t].ret = RetRaise(SpawnError(call[t].arg.gdb_path))]_vars

\* C8 witness: a create_session has raised while another session is registered.
C8_Witness ==
    \E t \in Callers :
        /\ Finished(t, "create_session")
        /\ call[t].ret.kind = "raise"
        /\ Len(sessions) > 0

\* C9 as claimed: at most one call has a command in flight (written, reply not yet
\* collected) on a session's subprocess handle.
C9_OneCommandInFlight ==
    \A t \in Callers, u \in Callers :
        (t # u /\ call[t].pc = "w_recv" /\ call[u].pc = "w_recv")
            => call[t].gdb # call[u].gdb

\* C10 as claimed: a get_session racing with terminate_session returns the handle or
\* raises the session-not-found error, never any other error.
C10_GetSessionAtomic ==
    \A t \in Callers :
        Finished(t, "get_session")
            => \/ call[t].ret.kind = "handle"
               \/ call[t].ret = RetRaise(SessionNotFound(call[t].sid))

\* C11 as claimed: a facade call whose command was written and whose session was
\* terminated before the reply was collected returns a failure text (session not
\* found, or a broken-pipe style error), never a rendered reply.
C11_PendingCallFails ==
    \A t \in Callers :
        (/\ call[t].pc = "done"
         /\ call[t].op \in Capabilities
         /\ call[t].sent # <<>>
         /\ call[t].sid \in terminatedOk)
            => /\ call[t].ret.kind = "text"
               /\ call[t].caught # ""

\* C12: while a command is in flight on one session, a facade call on a different
\* session is never held up: each of its steps (the membership test, the lookup,
\* the write to its running subprocess, the collection of the reply) can be taken.
C12_SessionsDoNotBlock ==
    \A t \in Callers, u \in Callers :
        (/\ t # u
         /\ call[t].pc = "w_recv"
         /\ call[u].op \in Capabilities
         /\ call[u].sid # call[t].sid)
            => /\ call[u].pc = "g_check" => ENABLED get_session_check(u)
               /\ call[u].pc = "g_fetch" => ENABLED get_session_fetch(u, FALSE)
               /\ (call[u].pc = "w_send" /\ procs[call[u].gdb] = "running")
                    => ENABLED gdb_write_send(u)
               /\ call[u].pc = "w_recv" => ENABLED gdb_write_reply(u)

\* C12 witness: a call on one session has returned its rendered reply while a
\* command on another session is still in flight.
C12_Witness ==
    \E t \in Callers, u \in Callers :
        /\ call[t].pc = "w_recv"
        /\ call[u].pc = "done"
        /\ call[u].op \in Capabilities
        /\ call[u].sid # call[t].sid
        /\ call[u].sent # <<>>
        /\ call[u].caught = ""

\* C13: a command that fails in the subprocess layer (timeout, broken pipe,
\* malformed reply) makes the facade call return an error text and changes neither
\* the registry nor any subprocess; an entry leaves the registry only in the
\* delete step of a terminate_session call on that identifier.
C13_FailedCommandKeepsSession ==
    [][/\ \A t \in Callers :
             (/\ call[t].op \in Capabilities
              /\ call[t].pc \in {"w_send", "w_recv"}
              /\ call'[t].pc = "done"
              /\ call'[t].caughtFrom = "process")
             => /\ call'[t].ret.kind = "text"
                /\ call'[t].ret.text[1] = ErrorPrefix(call[t].op)
                /\ sessions' = sessions
                /\ procs' = procs
       /\ \A id \in KeySet(sessions) :
             \/ /\ HasKey(sessions', id)
                /\ Lookup(sessions', id) = Lookup(sessions, id)
             \/ \E t \in Callers :
                   /\ call[t].op = "terminate_session"
                   /\ call[t].pc = "t_del"
                   /\ call[t].sid = id
                   /\ call'[t].pc = "done"]_vars

\* C13 witness: a command has timed out and its session is still registered with
\* the handle the command was written to.
C13_Witness ==
    \E t \in Callers :
        /\ call[t].pc = "done"
        /\ call[t].op = "set_breakpoint"
        /\ call[t].caught = "GdbTimeoutError"
        /\ HasKey(sessions, call[t].sid)
        /\ Lookup(sessions, call[t].sid) = call[t].sent[1].handle

\* C14: load_program and load_core_dump, called with a registered identifier and a
\* path that does not exist, return a text containing "does not exist" and write
\* nothing to the session's subprocess.
C14_MissingFileShortCircuit ==
    \A t \in Callers :
        (/\ call[t].pc = "done"
         /\ call[t].op \in FileCapabilities
         /\ ~call[t].absentAtCall
         /\ call[t].arg.path \notin ExistingFiles)
            => /\ call[t].ret.kind = "text"
               /\ ContainsDoesNotExist(call[t].ret.text)
               /\ call[t].caught = ""
               /\ call[t].sent = <<>>

\* C14 witness: load_core_dump has refused a missing core file on a registered
\* session whose subprocess is running.
C14_Witness ==
    \E t \in Callers :
        /\ Finished(t, "load_core_dump")
        /\ HasKey(sessions, call[t].sid)
        /\ procs[Lookup(sessions, call[t].sid)] = "running"
        /\ ContainsDoesNotExist(call[t].ret.text)

\* The handle create_session stored for an identifier it generated.
HandleOf(session_id) == NewHandle(session_id)

\* C15: a command is written only by a call that is past a successful get_session
\* on its own identifier, and only to the handle the registry held for that
\* identifier: the identifier was registered when the call began, and every write
\* of the call went to that identifier's handle.
C15_ResolveGatesEveryWrite ==
    /\ \A t \in Callers :
          call[t].pc \in {"w_send", "w_recv"}
              => /\ call[t].op \in Capabilities
                 /\ call[t].sid \in issued
                 /\ call[t].gdb = HandleOf(call[t].sid)
    /\ \A t \in Callers :
          call[t].sent # <<>>
              => /\ call[t].op \in Capabilities
                 /\ ~call[t].absentAtCall
                 /\ call[t].sid \in issued
                 /\ Len(call[t].sent) = 1
                 /\ call[t].sent[1].handle = HandleOf(call[t].sid)
                 /\ call[t].sent[1].command = Command(call[t].op, call[t].arg)

\* C15 witness: set_watchpoint has written its command to the second session's
\* handle while the first session is registered as well.
C15_Witness ==
    \E t \in Callers :
        /\ call[t].op = "set_watchpoint"
        /\ call[t].pc = "w_recv"
        /\ Len(sessions) = 2
        /\ call[t].sid = sessions[2][1]
        /\ call[t].sent[1].handle = sessions[2][2]

\* C16: an identifier that create_session returns was returned by no earlier
\* create_session (also not for a session that has been terminated since), is the
\* identifier of no create_session running at the same time, and no two entries of
\* the registry share an identifier.
C16_IdentifiersNeverReused ==
    [][/\ Cardinality(KeySet(sessions)) = Len(sessions)
       /\ \A t \in Callers :
             (/\ call[t].op = "create_session"
              /\ call[t].pc # "done"
              /\ call'[t].pc = "done")
             => \A id \in ReturnedIds(call'[t]) :
                   /\ id \notin known
                   /\ id \notin terminatedOk
                   /\ \A u \in Callers \ {t} :
                         call[u].op = "create_session" => call[u].sid # id]_vars

\* C16 witness: create_session has returned an identifier after an earlier session
\* was terminated and its entry removed.
C16_Witness ==
    \E t \in Callers :
        /\ Finished(t, "create_session")
        /\ call[t].ret.kind = "id"
        /\ terminatedOk # {}
        /\ Len(sessions) = 1

\* C17: no step of a terminate_session call touches another session: every other
\* identifier stays registered with the same handle and every other subprocess
\* stays as it is; and a command issued for a session is written to that session's
\* handle only.
C17_SessionsIsolated ==
    [][\A t \in Callers :
          /\ (call[t].op = "terminate_session" /\ call'[t] # call[t])
                => /\ \A id \in KeySet(sessions) \ {call[t].sid} :
                         /\ HasKey(sessions', id)
                         /\ Lookup(sessions', id) = Lookup(sessions, id)
                   /\ \A h \in DOMAIN procs :
                         procs'[h] # procs[h]
                            => /\ call[t].sid \in issued
                               /\ h = NewHandle(call[t].sid)
          /\ (call[t].op \in Capabilities /\ Len(call'[t].sent) > Len(call[t].sent))
                => /\ call[t].sid \in issued
                   /\ call'[t].sent[Len(call'[t].sent)].handle = NewHandle(call[t].sid)
                   /\ \A id \in issued \ {call[t].sid} :
                         call'[t].sent[Len(call'[t].sent)].handle # NewHandle(id)]_vars

\* C17 witness: after one session was terminated, a command on the other session
\* was written to that session's running subprocess and its reply was rendered.
C17_Witness ==
    \E t \in Callers, a \in terminatedOk :
        /\ call[t].pc = "done"
        /\ call[t].op \in Capabilities
        /\ call[t].sid # a
        /\ call[t].caught = ""
        /\ call[t].sent # <<>>
        /\ HasKey(sessions, call[t].sid)
        /\ Lookup(sessions, call[t].sid) = call[t].sent[1].handle
        /\ procs[call[t].sent[1].handle] = "running"

\* The texts a capability returns when its command was answered.
RenderedReplies == {format_gdb_response(response).text : response \in Replies}

\* C18: a refused load (missing path) does not disturb its session.  The refusing
\* call changes neither the registry nor the subprocess and leaves the identifier
\* listed; from then on the identifier stays registered with the same handle until
\* a terminate_session on it returns True; a later command on it is written to that
\* handle and its reply rendered; a terminate_session on it whose exit() goes
\* through returns True and removes the entry; afterwards the identifier is not
\* listed and get_session on it raises session-not-found.
C18_RefusedLoadKeepsSession ==
    /\ [](\A id \in precondFailed :
            /\ id \in issued
            /\ HasKey(sessions, id) \/ id \in terminatedOk
            /\ HasKey(sessions, id) => Lookup(sessions, id) = NewHandle(id)
            /\ id \in terminatedOk => id \notin Listed(Keys(sessions))
            /\ \A t \in Callers :
                  /\ (/\ call[t].pc = "done"
                      /\ call[t].op \in Capabilities
                      /\ call[t].sid = id
                      /\ call[t].sent # <<>>)
                        => /\ call[t].sent[1].handle = NewHandle(id)
                           /\ call[t].caught = "" => call[t].ret.text \in RenderedReplies
                  /\ (call[t].pc = "w_send" /\ call[t].sid = id /\ procs[call[t].gdb] = "running")
                        => ENABLED gdb_write_send(t)
                  /\ (Finished(t, "get_session") /\ call[t].sid = id /\ id \in terminatedOk)
                        => call[t].ret = RetRaise(SessionNotFound(id)))
    /\ [][\A t \in Callers :
            /\ (/\ call[t].op \in FileCapabilities
                /\ call[t].pc # "done"
                /\ call'[t].pc = "done"
                /\ ContainsDoesNotExist(call'[t].ret.text))
                  => /\ sessions' = sessions
                     /\ procs' = procs
                     /\ call[t].sid \in Listed(Keys(sessions'))
                     /\ call[t].sid \in precondFailed'
            /\ (/\ call[t].op = "terminate_session"
                /\ call[t].pc = "t_del"
                /\ call[t].sid \in precondFailed
                /\ call'[t] # call[t])
                  => /\ call'[t].pc = "done"
                     /\ call'[t].ret \in
                            { RetBool(TRUE),
                              RetText(<<"GDB session '", call[t].sid,
                                        "' terminated successfully">>) }
                     /\ call[t].sid \notin Listed(Keys(sessions'))]_vars

\* C18 witness: the scenario's last state: a session whose load was refused has
\* been terminated and get_session on it has raised session-not-found.
C18_Witness ==
    \E t \in Callers :
        /\ Finished(t, "get_session")
        /\ call[t].sid \in precondFailed
        /\ call[t].sid \in terminatedOk
        /\ call[t].ret.exc = "ValueError"

\* The lines of a text: its pieces between the newline pieces.
RECURSIVE SplitLines(_)
SplitLines(text) ==
    IF \A i \in DOMAIN text : text[i] # "\n" THEN <<text>>
    ELSE LET k == CHOOSE i \in DOMAIN text :
                     text[i] = "\n" /\ \A j \in 1..(i - 1) : text[j] # "\n"
         IN  <<SubSeq(text, 1, k - 1)>> \o SplitLines(SubSeq(text, k + 1, Len(text)))

\* The kind and the payload of a message as they are shown.
KindOf(msg) == IF msg.type = Absent THEN "unknown" ELSE msg.type.s

PayloadOf(msg) == IF msg.payload = Absent THEN "" ELSE msg.payload.s

Capitalized == [ unknown |-> "Unknown", notify |-> "Notify", output |-> "Output" ]

\* C19: a non-empty reply sequence is rendered as one line per message, in the
\* order of the messages, joined by newlines: "Console: <payload>",
\* "Log: <payload>", "Target: <payload>", a "Result" line, and for any other kind
\* "<Capitalized kind>: <payload>".
C19_OneLinePerMessage ==
    \A t \in Callers :
        (Finished(t, "format_gdb_response") /\ Len(call[t].arg.response) > 0)
            => /\ call[t].ret.kind = "text"
               /\ LET response == call[t].arg.response
                      lines == SplitLines(call[t].ret.text)
                  IN  /\ Len(lines) = Len(response)
                      /\ \A i \in DOMAIN response :
                            LET kind == KindOf(response[i])
                                payload == PayloadOf(response[i])
                            IN  CASE kind = "console" -> lines[i] = <<"Console: ", payload>>
                                  [] kind = "log" -> lines[i] = <<"Log: ", payload>>
                                  [] kind = "target" -> lines[i] = <<"Target: ", payload>>
                                  [] kind = "result" ->
                                        lines[i][1] \in {"Result: ", "Result ("}
                                  [] OTHER ->
                                        lines[i] = <<Capitalized[kind], ": ", payload>>

\* C19 witness: a notify message followed by a console message has been rendered.
C19_Witness ==
    \E t \in Callers :
        /\ Finished(t, "format_gdb_response")
        /\ Len(call[t].arg.response) = 2
        /\ call[t].arg.response[1].type = Str("notify")
        /\ call[t].arg.response[2].type = Str("console")
        /\ call[t].ret.text = <<"Notify", ": ", "hello", "\n", "Console: ", "">>

\* The payloads that count as empty or absent.
EmptyPayloads == { Absent, Str(""), PyNone, EmptyDict }

\* C20: a result message with status "done" is rendered "Result: <payload>", an
\* empty or absent payload being replaced by "Command completed successfully";
\* with any other status it is rendered "Result (<status>): <payload>", the
\* payload as it is.
C20_ResultLine ==
    \A t \in Callers :
        Finished(t, "format_gdb_response")
            => LET response == call[t].arg.response
                   lines == SplitLines(call[t].ret.text)
               IN  \A i \in DOMAIN response :
                      response[i].type = Str("result")
                         => /\ Len(lines) = Len(response)
                            /\ lines[i] =
                                 IF response[i].message = Str("done")
                                 THEN <<"Result: ",
                                        IF response[i].payload \in EmptyPayloads
                                        THEN "Command completed successfully"
                                        ELSE response[i].payload.s>>
                                 ELSE <<"Result (",
                                        IF response[i].message = Absent THEN ""
                                        ELSE response[i].message.s,
                                        "): ", PayloadOf(response[i])>>

\* C20 witness: a done result without payload and an error result have been
\* rendered.
C20_Witness ==
    \E t \in Callers :
        /\ Finished(t, "format_gdb_response")
        /\ call[t].arg.response =
              <<Msg(Str("result"), Str("done"), PyNone),
                Msg(Str("result"), Str("error"), Str("hello"))>>
        /\ call[t].ret.text =
              <<"Result: ", "Command completed successfully", "\n",
                "Result (", "error", "): ", "hello">>

\* C21: format_gdb_response returns "No response from GDB" exactly when the reply
\* sequence is empty, and never returns "Command executed".
C21_EmptyReplyLiteral ==
    \A t \in Callers :
        Finished(t, "format_gdb_response")
            => /\ (call[t].ret = RetText(<<"No response from GDB">>))
                     <=> (Len(call[t].arg.response) = 0)
               /\ call[t].ret.text # <<"Command executed">>

\* C21 witness: a single message without kind, status and payload has been
\* rendered, and gave a line.
C21_Witness ==
    \E t \in Callers :
        /\ Finished(t, "format_gdb_response")
        /\ call[t].arg.response = <<Msg(Absent, Absent, Absent)>>
        /\ call[t].ret = RetText(<<"Unknown", ": ", "">>)

\* C22 as claimed: format_gdb_response fails for no message shape: whatever the
\* kind, status and payload are (missing, None, of any type), it returns a text.
C22_RenderNeverFails ==
    \A t \in Callers :
        Finished(t, "format_gdb_response") => call[t].ret.kind = "text"

\* C23: a capability call that resolved its session and passed its precondition
\* makes exactly one write: one command line, the capability's, is in the call's
\* log of writes, or none when that one write found the pipe broken; no call
\* writes twice; a call that failed resolution or its precondition wrote nothing.
C23_OneWritePerCall ==
    \A t \in Callers :
        /\ Len(call[t].sent) <= 1
        /\ (call[t].pc = "done" /\ call[t].op \in Capabilities)
              => IF \/ call[t].absentAtCall
                    \/ /\ call[t].op \in FileCapabilities
                       /\ call[t].arg.path \notin ExistingFiles
                 THEN call[t].sent = <<>>
                 ELSE \/ /\ Len(call[t].sent) = 1
                         /\ call[t].sent[1].command = Command(call[t].op, call[t].arg)
                      \/ /\ call[t].sent = <<>>
                         /\ call[t].caught = "BrokenPipeError"

\* C23 witness: get_stack_frames with both frame limits has written its one
\* command and returned the rendered reply.
C23_Witness ==
    \E t \in Callers :
        /\ Finished(t, "get_stack_frames")
        /\ call[t].arg.low_frame.some
        /\ call[t].arg.high_frame.some
        /\ Len(call[t].sent) = 1
        /\ call[t].caught = ""

\* The text says a session was terminated.
SaysTerminated(text) == \E i \in DOMAIN text : text[i] = "' terminated successfully"

\* C24: the facade's terminate_session never raises; it returns a text containing
\* "terminated successfully" exactly when the call removed the session from the
\* registry (the identifier is then not registered), and a text containing
\* "not found" otherwise.
C24_FacadeTerminateText ==
    \A t \in Callers :
        (Finished(t, "terminate_session") /\ call[t].via = "facade")
            => /\ call[t].ret.kind = "text"
               /\ SaysTerminated(call[t].ret.text)
                     <=> (~call[t].absentAtCall /\ ~HasKey(sessions, call[t].sid))
               /\ SaysTerminated(call[t].ret.text)
                     => /\ call[t].sid \in terminatedOk
                        /\ call[t].sid \notin Listed(Keys(sessions))
               /\ ~SaysTerminated(call[t].ret.text) => ContainsNotFound(call[t].ret.text)

\* C24 witness: the facade has terminated one of two sessions and said so.
C24_Witness ==
    \E t \in Callers :
        /\ Finished(t, "terminate_session")
        /\ call[t].via = "facade"
        /\ SaysTerminated(call[t].ret.text)
        /\ Len(sessions) = 1

\* C25: the facade's list_sessions returns "No active GDB sessions" exactly when the
\* registry is empty, and otherwise a text that contains every registered
\* identifier and no identifier of a terminated session.
C25_FacadeListReflectsRegistry ==
    \A t \in Callers :
        (Finished(t, "list_sessions") /\ call[t].via = "facade")
            => /\ call[t].ret.kind = "text"
               /\ (call[t].ret.text = <<"No active GDB sessions">>) <=> (Len(sessions) = 0)
               /\ \A id \in KeySet(sessions) : id \in Listed(call[t].ret.text)
               /\ \A id \in terminatedOk : id \notin Listed(call[t].ret.text)
               /\ \A id \in issued \ KeySet(sessions) : id \notin Listed(call[t].ret.text)

\* C25 witness: the facade has listed the second session after the first was
\* terminated.
C25_Witness ==
    \E t \in Callers :
        /\ Finished(t, "list_sessions")
        /\ call[t].via = "facade"
        /\ terminatedOk # {}
        /\ Len(sessions) = 1
        /\ call[t].ret.text = <<"Active GDB sessions:\n", "- ", sessions[1][1]>>

\* C26 as claimed: the sessions resource shows the sessions of the facade: it
\* returns "No active GDB sessions" exactly when the facade's registry is empty,
\* and otherwise a text with "Active GDB Sessions:" and every identifier started
\* through the facade and not yet terminated.
C26_ResourceConsistent ==
    \A t \in Callers :
        Finished(t, "list_gdb_sessions")
            => /\ (call[t].ret.text = <<"No active GDB sessions">>) <=> (Len(sessions) = 0)
               /\ Len(sessions) > 0
                    => /\ call[t].ret.text[1] = "Active GDB Sessions:\n"
                       /\ \A id \in KeySet(sessions) : id \in Listed(call[t].ret.text)

\* C27: the facade's start_session never raises.  On success it returns
\* "GDB session started successfully. Session ID: <id>" with <id> registered on
\* return; when the spawn fails it returns a text beginning with
\* "Error starting GDB session" and no step of the call changed the registry.
C27_FacadeStartText ==
    /\ [](\A t \in Callers :
            (Finished(t, "create_session") /\ call[t].via = "facade")
               => /\ call[t].ret.kind = "text"
                  /\ IF call[t].arg.gdb_path \in Executables
                     THEN /\ call[t].ret.text =
                               <<"GDB session started successfully. Session ID: ",
                                 call[t].sid>>
                          /\ HasKey(sessions, call[t].ret.text[2])
                          /\ call[t].caught = ""
                     ELSE /\ call[t].ret.text[1] = "Error starting GDB session: "
                          /\ call[t].caught = "FileNotFoundError"
                          /\ ~HasKey(sessions, call[t].sid))
    /\ [][\A t \in Callers :
            (/\ call[t].op = "create_session"
             /\ call[t].via = "facade"
             /\ call[t].arg.gdb_path \notin Executables
             /\ call'[t] # call[t])
               => sessions' = sessions]_vars

\* C27 witness: start_session has returned its error text while a session started
\* earlier is registered.
C27_Witness ==
    \E t \in Callers :
        /\ Finished(t, "create_session")
        /\ call[t].via = "facade"
        /\ call[t].ret.text[1] = "Error starting GDB session: "
        /\ Len(sessions) = 1

\* C28: list_sessions returns a snapshot: the returned sequence holds exactly the
\* identifiers registered at the call, each once, and as long as the caller keeps
\* it no create_session or terminate_session changes what it holds.
C28_ListIsSnapshot ==
    [][\A t \in Callers :
          /\ (/\ call[t].pc = "idle"
              /\ call'[t].pc = "done"
              /\ call'[t].op = "list_sessions")
                => LET ids == Elements(call'[t].ret, sessions')
                   IN  /\ Listed(ids) = KeySet(sessions)
                       /\ Len(ids) = Cardinality(KeySet(sessions))
          /\ (/\ call[t].op = "list_sessions"
              /\ call[t].pc \in {"done", "holding"}
              /\ call'[t].pc = "holding")
                => Elements(call'[t].ret, sessions') = Elements(call[t].ret, sessions)]_vars

\* C28 witness: a caller still holds a listing with an identifier that has been
\* terminated since, while another session was created since.
C28_Witness ==
    \E t \in Callers :
        /\ call[t].pc = "holding"
        /\ \E id \in Listed(call[t].ret.text) : id \in terminatedOk
        /\ \E id \in KeySet(sessions) : id \notin Listed(call[t].ret.text)

\* C29: each session exclusively owns its subprocess handle: no two registered
\* identifiers map to the same handle, and the handle a successful create_session
\* spawns is a new one, behind no registered session and held by no other
\* create_session in progress.
C29_HandlesExclusive ==
    /\ [](\A i, j \in DOMAIN sessions :
              i # j => /\ sessions[i][1] # sessions[j][1]
                       /\ sessions[i][2] # sessions[j][2])
    /\ [][\A t \in Callers :
             (/\ call[t].op = "create_session"
              /\ call[t].pc = "c_spawn"
              /\ call'[t].pc = "c_store")
                => /\ call'[t].gdb # NoHandle
                   /\ procs[call'[t].gdb] = "unborn"
                   /\ procs'[call'[t].gdb] = "running"
                   /\ \A i \in DOMAIN sessions : sessions[i][2] # call'[t].gdb
                   /\ \A u \in Callers \ {t} : call[u].gdb # call'[t].gdb]_vars

\* C29 witness: two sessions are registered at once, each with its own running
\* subprocess.
C29_Witness ==
    /\ Len(sessions) = 2
    /\ sessions[1][2] # sessions[2][2]
    /\ procs[sessions[1][2]] = "running"
    /\ procs[sessions[2][2]] = "running"

\* C30: set_watchpoint selects its command by the requested watch kind: "read"
\* sends "-break-watch -r <expr>", "access" sends "-break-watch -a <expr>", and
\* "write" or any other value sends "-break-watch <expr>" with no flag; that
\* command is the only one the call writes.
C30_WatchCommandByKind ==
    \A t \in Callers :
        (call[t].op = "set_watchpoint" /\ call[t].sent # <<>>)
            => /\ Len(call[t].sent) = 1
               /\ call[t].sent[1].command =
                     <<CASE call[t].arg.watch_type = "read" -> "-break-watch -r "
                         [] call[t].arg.watch_type = "access" -> "-break-watch -a "
                         [] OTHER -> "-break-watch ",
                       call[t].arg.expression>>

\* C30 witness: an access watchpoint on *p has been answered, after its flagged
\* command went down the pipe.
C30_Witness ==
    \E t \in Callers :
        /\ Finished(t, "set_watchpoint")
        /\ call[t].arg.watch_type = "access"
        /\ call[t].caught = ""
        /\ call[t].sent = <<[handle |-> HandleOf(call[t].sid),
                             command |-> <<"-break-watch -a ", "*p">>]>>

\* C31: load_program and load_core_dump resolve the session before they test the
\* path: called with an identifier that is not registered and a path that does not
\* exist, they return the session error, which contains "not found", and not the
\* file error "does not exist"; nothing is written to any subprocess.
C31_SessionErrorBeforeFileError ==
    \A t \in Callers :
        (/\ call[t].pc = "done"
         /\ call[t].op \in FileCapabilities
         /\ call[t].absentAtCall
         /\ call[t].arg.path \notin ExistingFiles)
            => /\ call[t].ret.kind = "text"
               /\ call[t].ret.text[1] = ErrorPrefix(call[t].op)
               /\ ContainsNotFound(call[t].ret.text)
               /\ ~ContainsDoesNotExist(call[t].ret.text)
               /\ call[t].caught = "ValueError"
               /\ call[t].sent = <<>>

\* C31 witness: load_program on an identifier whose session was terminated, with a
\* missing program file, has returned the session error while another session is
\* registered.
C31_Witness ==
    \E t \in Callers :
        /\ Finished(t, "load_program")
        /\ call[t].sid \in terminatedOk
        /\ call[t].arg.path \notin ExistingFiles
        /\ ContainsNotFound(call[t].ret.text)
        /\ Len(sessions) = 1

\* C32 as claimed: whenever the facade's terminate_session(id) returns the text
\* saying the session was "not found", id is not registered when the call returns.
\* It fails when gdb.exit() raises: the registry returns False with the entry kept,
\* and the facade renders that False as "not found".
C32_NotFoundMeansUnregistered ==
    \A t \in Callers :
        (/\ Finished(t, "terminate_session")
         /\ call[t].via = "facade"
         /\ call[t].ret.kind = "text"
         /\ call[t].ret.text = <<"GDB session '", call[t].sid, "' not found">>)
            => ~HasKey(sessions, call[t].sid)

\* C33 as claimed: once terminate_session has invoked exit on a session's handle,
\* no get_session returns that handle and no command is written to it.  It fails:
\* exit() comes before the del, and a call that resolved the session earlier keeps
\* its handle.
C33_ExitedHandleUnreachable ==
    [][\A t \in Callers :
          /\ (/\ call[t].pc = "g_fetch"
              /\ call[t].op = "get_session"
              /\ call'[t].pc = "done"
              /\ call'[t].ret.kind = "handle")
                => procs[call'[t].ret.handle] # "exiting"
          /\ (Len(call'[t].sent) > Len(call[t].sent))
                => procs[call'[t].sent[Len(call'[t].sent)].handle] # "exiting"]_vars

\* Exit is not invoked on a handle that an earlier exit has already told to exit.
ExitInvokedOnce ==
    [][\A t \in Callers :
          (/\ call[t].op = "terminate_session"
           /\ call[t].pc = "t_exit"
           /\ call'[t].pc = "t_del")
             => procs[call[t].gdb] # "exiting"]_vars

\* C34 as claimed: when terminate_session calls run concurrently on one registered
\* identifier, none of them raises, at most one returns True, exit is invoked at
\* most once on the session's handle, and once they have all returned the
\* identifier is not registered.  It fails: both calls may fetch the handle before
\* either deletes the entry, and then each invokes exit on it; and when exit
\* raises, the entry stays.
C34_ConcurrentTerminateOnce ==
    /\ [](\A t \in Callers :
             Finished(t, "terminate_session")
                => /\ call[t].ret.kind = "bool"
                   /\ (/\ ~call[t].absentAtCall
                       /\ \A u \in Callers \ {t} :
                             ~(/\ call[u].op = "terminate_session"
                               /\ call[u].sid = call[t].sid
                               /\ call[u].pc # "done"))
                         => ~HasKey(sessions, call[t].sid))
    /\ [][\A t \in Callers :
             (/\ call[t].op = "terminate_session"
              /\ call[t].pc # "done"
              /\ call'[t].pc = "done"
              /\ call'[t].ret.flag)
                => call[t].sid \notin terminatedOk]_vars
    /\ ExitInvokedOnce

\* The identifiers that create_session calls have returned.
Created == known \cup UNION {ReturnedIds(call[t]) : t \in Callers}

\* C35: concurrent create_session calls lose no update: every identifier a
\* create_session has returned, and that no terminate_session has removed, is
\* registered with the handle its own call spawned, however the creates were
\* interleaved with each other and with terminate_session calls; the store adds its
\* entry and leaves the others as they were.
C35_NoLostCreate ==
    /\ [](\A id \in Created \ terminatedOk :
              /\ HasKey(sessions, id)
              /\ Lookup(sessions, id) = HandleOf(id))
    /\ [][\A t \in Callers :
             (/\ call[t].op = "create_session"
              /\ call[t].pc = "c_store"
              /\ call'[t].pc = "done")
                => /\ call[t].gdb = HandleOf(call[t].sid)
                   /\ sessions' = Append(sessions, <<call[t].sid, call[t].gdb>>)]_vars

\* C35 witness: two create_session calls overlapped (the one that drew its
\* identifier first stored it last) and both identifiers are registered.
C35_Witness ==
    \E t \in Callers :
        /\ Finished(t, "create_session")
        /\ call[t].ret.kind = "id"
        /\ call[t].sid = UuidNames[1]
        /\ Keys(sessions) = <<UuidNames[2], UuidNames[1]>>

\* The operations that only read the registry.
Readers == {"get_session", "has_session", "list_sessions"} \cup Capabilities

\* C36: the registry changes only through create_session and terminate_session: a
\* successful create_session adds one new identifier and changes no other entry,
\* terminate_session removes at most the identifier it was given, and no step of
\* get_session, has_session, list_sessions or of a command-sending capability,
\* successful or failing, changes the mapping.
C36_OnlyCreateAndTerminateWrite ==
    [][/\ \A t \in Callers :
             /\ (/\ call'[t] # call[t]
                 /\ (call[t].op \in Readers \/ call'[t].op \in Readers))
                   => sessions' = sessions
             /\ (call'[t] # call[t] /\ call[t].op = "create_session")
                   => \/ sessions' = sessions
                      \/ /\ call'[t].pc = "done"
                         /\ call'[t].ret.kind \in {"id", "text"}
                         /\ call'[t].caught = ""
                         /\ ~HasKey(sessions, call[t].sid)
                         /\ sessions' = Append(sessions, <<call[t].sid, call[t].gdb>>)
             /\ (call'[t] # call[t] /\ call[t].op = "terminate_session")
                   => \/ sessions' = sessions
                      \/ /\ HasKey(sessions, call[t].sid)
                         /\ sessions' = Delete(sessions, call[t].sid)
       /\ sessions' # sessions
             => \E t \in Callers :
                   /\ call'[t] # call[t]
                   /\ call[t].op \in {"create_session", "terminate_session"}]_vars

\* C36 witness: a capability's command has failed in the subprocess layer and its
\* session is still registered, after another session was created and terminated.
C36_Witness ==
    \E t \in Callers :
        /\ call[t].pc = "done"
        /\ call[t].op \in Capabilities
        /\ call[t].caughtFrom = "process"
        /\ Keys(sessions) = <<call[t].sid>>
        /\ terminatedOk # {}

\* C37: get_stack_frames sends the ranged command "-stack-list-frames <low> <high>"
\* only when both low_frame and high_frame are given, a bound of 0 counting as
\* given; when either bound is missing it sends the unranged "-stack-list-frames"
\* and the bound that was supplied does not appear in the command.
C37_StackFramesRange ==
    \A t \in Callers :
        (call[t].op = "get_stack_frames" /\ call[t].sent # <<>>)
            => /\ Len(call[t].sent) = 1
               /\ call[t].sent[1].command =
                     IF call[t].arg.low_frame # None /\ call[t].arg.high_frame # None
                     THEN <<"-stack-list-frames ", ToString(call[t].arg.low_frame.v),
                            " ", ToString(call[t].arg.high_frame.v)>>
                     ELSE <<"-stack-list-frames">>

\* C37 witness: with low_frame 0 and high_frame 2 the ranged command was sent and
\* answered.
C37_Witness ==
    \E t \in Callers :
        /\ Finished(t, "get_stack_frames")
        /\ call[t].arg.low_frame = Some(0)
        /\ call[t].caught = ""
        /\ call[t].sent[1].command = <<"-stack-list-frames ", "0", " ", "2">>

====
